---- MODULE Spec2Model ----
(***************************************************************************)
(* Data pipeline of F5-TTS-Custom (src/f5_tts/model/dataset.py):           *)
(*   - DynamicBatchSampler: construction (sort + greedy pass), set_epoch,  *)
(*     __iter__, __len__;                                                  *)
(*   - CustomConcatDataset: get_frame_len over cumulative sizes;           *)
(*   - load_from_phonemize_txt: metadata ingestion.                        *)
(* Indices are 0-based as in the source; a Python list l is the sequence   *)
(* whose element i+1 is l[i].                                              *)
(***************************************************************************)
EXTENDS Integers, Sequences, FiniteSets, TLC

VARIABLES data_source, smp, gen, datasets, call, meta_file, vocab_map, result,
          files, changer, view, getitem, meta_paths

vars == <<data_source, smp, gen, datasets, call, meta_file, vocab_map, result,
          files, changer, view, getitem, meta_paths>>

(***************************************************************************)
(* Bounds of the model.                                                    *)
(***************************************************************************)
\* number of rows of the data source the sampler is built over
MaxItems == 3
\* number of rows of the data source of the samplers that are iterated
MaxIterItems == 2
\* largest frame length of a row
MaxFrame == 2
\* largest frames_threshold
MaxThreshold == 3
\* largest max_samples
MaxSamples == 2
\* largest configured random_seed
MaxSeed == 0
\* largest epoch passed to set_epoch
MaxEpoch == 1
\* number of generator behaviours the model ranges over, less one
MaxGen == 1
\* number of sub-views of a concatenated view
MaxViews == 3
\* number of rows of a sub-view
MaxViewLen == 2
\* how far below 0 and beyond the total length a global index is tried
MaxOut == 2
\* number of lines of a metadata file
MaxRows == 2

\* random_seed=None
NoSeed == -1

(***************************************************************************)
(* Generic helpers.                                                        *)
(***************************************************************************)
Range(s) == {s[i] : i \in 1..Len(s)}

\* the permutations of 0..n-1, as sequences
Perms(n) == {p \in [1..n -> 0..(n - 1)] : \A i, j \in 1..n : p[i] = p[j] => i = j}

RECURSIVE Sum(_)
Sum(s) == IF s = <<>> THEN 0 ELSE Head(s) + Sum(Tail(s))

RECURSIVE Factorial(_)
Factorial(n) == IF n <= 1 THEN 1 ELSE n * Factorial(n - 1)

\* s without its k-th element
Without(s, k) == [i \in 1..(Len(s) - 1) |-> IF i < k THEN s[i] ELSE s[i + 1]]

(***************************************************************************)
(* DynamicBatchSampler.__init__                                            *)
(***************************************************************************)
\* data_source.get_frame_len(idx) of the data source the upstream sampler reads
get_frame_len(ds, idx) == ds[idx + 1]

\* for idx in self.sampler: indices.append((idx, data_source.get_frame_len(idx)))
Materialize(sampler, ds) == [k \in 1..Len(sampler) |-> <<sampler[k], get_frame_len(ds, sampler[k])>>]

\* list.sort(key=elem[1]) is stable: insertion after the last element whose key
\* is not larger
RECURSIVE Insert(_, _)
Insert(sorted, elem) ==
    IF sorted = <<>> THEN <<elem>>
    ELSE IF Head(sorted)[2] <= elem[2] THEN <<Head(sorted)>> \o Insert(Tail(sorted), elem)
    ELSE <<elem>> \o sorted

RECURSIVE SortFrom(_, _)
SortFrom(sorted, rest) ==
    IF rest = <<>> THEN sorted ELSE SortFrom(Insert(sorted, Head(rest)), Tail(rest))

NoSort(indices) == indices

\* indices.sort(key=lambda elem: elem[1])
SortIndices(indices) == SortFrom(<<>>, indices)

CanAppendCountOnly(batch, batch_frames, frame_len, frames_threshold, max_samples) ==
    max_samples = 0 \/ Len(batch) < max_samples

\* the condition of line 217
CanAppend(batch, batch_frames, frame_len, frames_threshold, max_samples) ==
    /\ batch_frames + frame_len <= frames_threshold
    /\ (max_samples = 0 \/ Len(batch) < max_samples)

StartBatchKeepsOversize(idx, frame_len, frames_threshold) ==
    [batch |-> <<idx>>, batch_frames |-> frame_len]

StartBatchNever(idx, frame_len, frames_threshold) ==
    [batch |-> <<>>, batch_frames |-> 0]

\* the running batch after an index that could not be appended (lines 223-228)
StartBatch(idx, frame_len, frames_threshold) ==
    IF frame_len <= frames_threshold
    THEN [batch |-> <<idx>>, batch_frames |-> frame_len]
    ELSE [batch |-> <<>>, batch_frames |-> 0]

\* the loop of lines 216-228 over the sorted (idx, frame_len) pairs; the result
\* holds the locals batches and batch as the loop leaves them
RECURSIVE GreedyPass(_, _, _, _, _, _)
GreedyPass(indices, frames_threshold, max_samples, batch, batch_frames, batches) ==
    IF indices = <<>> THEN [batches |-> batches, batch |-> batch]
    ELSE LET idx == Head(indices)[1]
             frame_len == Head(indices)[2]
         IN IF CanAppend(batch, batch_frames, frame_len, frames_threshold, max_samples)
            THEN GreedyPass(Tail(indices), frames_threshold, max_samples,
                            Append(batch, idx), batch_frames + frame_len, batches)
            ELSE LET closed == IF Len(batch) > 0 THEN Append(batches, batch) ELSE batches
                     fresh == StartBatch(idx, frame_len, frames_threshold)
                 IN GreedyPass(Tail(indices), frames_threshold, max_samples,
                               fresh.batch, fresh.batch_frames, closed)

\* if not drop_residual and len(batch) > 0: batches.append(batch)
EmitResidual(batches, batch, drop_residual) ==
    IF ~drop_residual /\ Len(batch) > 0 THEN Append(batches, batch) ELSE batches

(***************************************************************************)
(* DynamicBatchSampler.__iter__ / __len__                                  *)
(***************************************************************************)
\* the r-th permutation of items in lexicographic order
RECURSIVE NthPerm(_, _)
NthPerm(items, r) ==
    IF items = <<>> THEN <<>>
    ELSE LET f == Factorial(Len(items) - 1)
             k == (r \div f) + 1
         IN <<items[k]>> \o NthPerm(Without(items, k), r % f)

\* g = torch.Generator(); g.manual_seed(s); torch.randperm(n, generator=g).tolist()
\* The generator is outside the repository: it is a deterministic function of
\* (s, n) onto the permutations of 0..n-1, and the model ranges over a family
\* of such functions, selected by gen.
Randperm(g, s, n) == NthPerm([i \in 1..n |-> i - 1], ((g + 1) * s + g) % Factorial(n))

GeneratorSeedNoEpoch(random_seed, epoch) == random_seed

\* g.manual_seed(self.random_seed + self.epoch)
GeneratorSeed(random_seed, epoch) == random_seed + epoch

DeliverDropLast(batches, indices) ==
    [k \in 1..(Len(indices) - 1) |-> batches[indices[k] + 1]]

\* batches = [self.batches[i] for i in indices]
Deliver(batches, indices) == [k \in 1..Len(indices) |-> batches[indices[k] + 1]]

\* the list __iter__ returns an iterator over
Iterate(s, g) ==
    IF s.random_seed # NoSeed
    THEN Deliver(s.batches, Randperm(g, GeneratorSeed(s.random_seed, s.epoch), Len(s.batches)))
    ELSE s.batches

\* __len__
SamplerLen(s) == Len(s.batches)

(***************************************************************************)
(* The sampler objects. smp[r] is one DynamicBatchSampler; before its      *)
(* construction it holds the arguments of the call.                        *)
(***************************************************************************)
Args(sampler, frames_threshold, max_samples, random_seed, drop_residual) ==
    [pc |-> "args", sampler |-> sampler, frames_threshold |-> frames_threshold,
     max_samples |-> max_samples, random_seed |-> random_seed,
     drop_residual |-> drop_residual, epoch |-> 0, batches |-> <<>>,
     batch |-> <<>>, built |-> <<>>, hist |-> {}]

\* __init__ (lines 195-237); batch and built record the local batch and the
\* batch list as construction leaves them
Construct(s, ds) ==
    LET indices == SortIndices(Materialize(s.sampler, ds))
        pass == GreedyPass(indices, s.frames_threshold, s.max_samples, <<>>, 0, <<>>)
        batches == EmitResidual(pass.batches, pass.batch, s.drop_residual)
    IN [s EXCEPT !.pc = "built", !.epoch = 0, !.batches = batches,
                 !.batch = pass.batch, !.built = batches]

SamplerInit(r) ==
    /\ smp[r].pc = "args"
    /\ smp' = [smp EXCEPT ![r] = Construct(smp[r], data_source)]
    /\ UNCHANGED <<data_source, gen, datasets, call, meta_file, vocab_map, result,
                 files, changer, view, getitem, meta_paths>>

\* set_epoch (lines 239-241)
SetEpoch(r) ==
    /\ smp[r].pc = "built"
    /\ \E epoch \in 0..MaxEpoch :
          /\ epoch # smp[r].epoch
          /\ smp' = [smp EXCEPT ![r].epoch = epoch]
    /\ UNCHANGED <<data_source, gen, datasets, call, meta_file, vocab_map, result,
                 files, changer, view, getitem, meta_paths>>

\* __iter__ (lines 243-253); hist collects what every iteration delivered
Iter(r) ==
    /\ smp[r].pc = "built"
    /\ smp' = [smp EXCEPT ![r].hist =
                  @ \cup {[epoch |-> smp[r].epoch, order |-> Iterate(smp[r], gen)]}]
    /\ UNCHANGED <<data_source, gen, datasets, call, meta_file, vocab_map, result,
                 files, changer, view, getitem, meta_paths>>

NoConcat == /\ datasets = <<>>
            /\ call = [pc |-> "none"]

NoLoad == /\ meta_file = <<>>
          /\ vocab_map = {}
          /\ result = [pc |-> "none"]

NoChanger == /\ files = <<>>
             /\ changer = [pc |-> "none"]

NoGetItem == /\ view = [kind |-> "none"]
             /\ getitem = [pc |-> "none"]

NoCorpus == meta_paths = <<>>

Seeds == {NoSeed} \cup 0..MaxSeed

Identity(n) == [i \in 1..n |-> i - 1]

\* self.sampler yields every index of the data source once
Upstreams(n) == Perms(n)

\* The construction of one sampler over a data source of up to MaxItems rows,
\* the upstream sampler yielding the indices in any order.
Init ==
    /\ \E n \in 0..MaxItems :
          /\ data_source \in [1..n -> 0..MaxFrame]
          /\ \E u \in Upstreams(n), t \in 0..MaxThreshold, m \in 0..MaxSamples, d \in BOOLEAN :
                smp = [r \in {1} |-> Args(u, t, m, NoSeed, d)]
    /\ gen = 0
    /\ NoConcat
    /\ NoLoad
    /\ NoChanger
    /\ NoGetItem
    /\ NoCorpus

Next == SamplerInit(1)

Spec == Init /\ [][Next]_vars

\* One sampler over a SequentialSampler, constructed and then iterated over
\* several epochs.
InitIter ==
    /\ \E n \in 0..MaxIterItems :
          /\ data_source \in [1..n -> 0..MaxFrame]
          /\ \E t \in 0..MaxThreshold, m \in 0..MaxSamples, sd \in Seeds, d \in BOOLEAN :
                smp = [r \in {1} |-> Args(Identity(n), t, m, sd, d)]
    /\ gen \in 0..MaxGen
    /\ NoConcat
    /\ NoLoad
    /\ NoChanger
    /\ NoGetItem
    /\ NoCorpus

NextIter ==
    \/ SamplerInit(1)
    \/ SetEpoch(1)
    \/ Iter(1)

SpecIter == InitIter /\ [][NextIter]_vars

\* Two samplers with the same arguments over the same data source, whose
\* upstream samplers yield the same indices in two orders; the first is built
\* and iterated once, then the second.
InitPair ==
    /\ \E n \in 0..MaxIterItems :
          /\ data_source \in [1..n -> 0..MaxFrame]
          /\ \E u \in Upstreams(n), t \in 0..MaxThreshold, m \in 0..MaxSamples,
                sd \in Seeds, d \in BOOLEAN :
                smp = [r \in {1, 2} |-> Args(IF r = 1 THEN Identity(n) ELSE u, t, m, sd, d)]
    /\ gen = 0
    /\ NoConcat
    /\ NoLoad
    /\ NoChanger
    /\ NoGetItem
    /\ NoCorpus

IterOnce(r) == smp[r].hist = {} /\ Iter(r)

SetEpochBefore(r) == smp[r].hist = {} /\ SetEpoch(r)

Turn(r) == r = 1 \/ smp[1].hist # {}

NextPair ==
    \/ \E r \in {1, 2} : Turn(r) /\ SamplerInit(r)
    \/ \E r \in {1, 2} : Turn(r) /\ SetEpochBefore(r)
    \/ \E r \in {1, 2} : Turn(r) /\ IterOnce(r)

SpecPair == InitPair /\ [][NextPair]_vars

(***************************************************************************)
(* Properties of the sampler.                                              *)
(***************************************************************************)
Built == {r \in DOMAIN smp : smp[r].pc = "built"}

\* the frame lengths of the indices of a batch
BatchFrames(b) == Sum([k \in 1..Len(b) |-> get_frame_len(data_source, b[k])])

BatchUnion(batches) == UNION {Range(batches[k]) : k \in 1..Len(batches)}

\* no index occurs twice, in one batch or in two
BatchesDisjoint(batches) ==
    /\ \A k \in 1..Len(batches) : \A i, j \in 1..Len(batches[k]) :
          batches[k][i] = batches[k][j] => i = j
    /\ \A k, l \in 1..Len(batches) : k # l => Range(batches[k]) \cap Range(batches[l]) = {}

\* the upstream indices whose own frame length fits the threshold
Batchable(s) ==
    {i \in Range(s.sampler) : get_frame_len(data_source, i) <= s.frames_threshold}

\* C1: every batch of a constructed sampler holds frames summing to at most
\* frames_threshold and, when max_samples > 0, at most max_samples indices.
C1_BatchBudget ==
    \A r \in Built : \A k \in 1..Len(smp[r].batches) :
        /\ BatchFrames(smp[r].batches[k]) <= smp[r].frames_threshold
        /\ smp[r].max_samples > 0 => Len(smp[r].batches[k]) <= smp[r].max_samples

\* a sampler whose first batch is full on both counts and was followed by another
C1_Witness ==
    \E r \in Built :
        /\ Len(smp[r].batches) >= 2
        /\ smp[r].max_samples > 0
        /\ Len(smp[r].batches[1]) = smp[r].max_samples
        /\ Len(smp[r].batches[1]) >= 2
        /\ BatchFrames(smp[r].batches[1]) = smp[r].frames_threshold

\* C2 as claimed: whatever drop_residual is, the batches are disjoint and their
\* union is the upstream indices less those that alone exceed the threshold.
C2_Original ==
    \A r \in Built :
        /\ BatchesDisjoint(smp[r].batches)
        /\ BatchUnion(smp[r].batches) = Batchable(smp[r])

\* C2 as amended: the batches are disjoint, and their union is the upstream
\* indices less those that alone exceed the threshold and, when drop_residual
\* is set, less the indices of the batch left open at the end of the pass.
C2_Partition ==
    \A r \in Built :
        /\ BatchesDisjoint(smp[r].batches)
        /\ BatchUnion(smp[r].batches) \subseteq Batchable(smp[r])
        /\ Batchable(smp[r]) \ BatchUnion(smp[r].batches) =
              IF smp[r].drop_residual THEN Range(smp[r].batch) ELSE {}

\* a sampler that dropped a residual batch after emitting another
C2_Witness ==
    \E r \in Built :
        /\ smp[r].drop_residual
        /\ smp[r].batch # <<>>
        /\ Len(smp[r].batches) >= 1

\* position of index i in the upstream order u
Pos(u, i) == CHOOSE k \in 1..Len(u) : u[k] = i

\* two upstream orders list the indices of equal frame length in the same order
TiesAgree(u1, u2) ==
    \A i, j \in Range(u1) :
        get_frame_len(data_source, i) = get_frame_len(data_source, j)
            => (Pos(u1, i) < Pos(u1, j) <=> Pos(u2, i) < Pos(u2, j))

SameBatching(a, b) ==
    /\ a.batches = b.batches
    /\ \A h1 \in a.hist, h2 \in b.hist : h1.epoch = h2.epoch => h1.order = h2.order

\* a batch list with every batch read as the set of its indices
Members(batches) == [k \in 1..Len(batches) |-> Range(batches[k])]

PermAt(s, epoch) == Randperm(gen, s.random_seed + epoch, Len(s.built))

Seeded == {r \in Built : smp[r].random_seed # NoSeed}

OnceIn(order, b) == Cardinality({k \in 1..Len(order) : order[k] = b}) = 1

\* C5: every iteration delivers each batch of the construction-time list exactly
\* once (in construction order without a seed), __len__ is the number of
\* batches delivered, and the sampler's batches are those of construction.
C5_IterationContract ==
    \A r \in Built :
        /\ smp[r].batches = smp[r].built
        /\ \A h \in smp[r].hist :
              /\ Len(h.order) = Len(smp[r].built)
              /\ \A k \in 1..Len(smp[r].built) : OnceIn(h.order, smp[r].built[k])
              /\ smp[r].random_seed = NoSeed => h.order = smp[r].built
              /\ SamplerLen(smp[r]) = Len(h.order)

\* a seeded sampler of two batches or more, iterated after set_epoch in an order
\* that is not the construction order, and again at another epoch
C5_Witness ==
    \E r \in Seeded :
        /\ Len(smp[r].built) >= 2
        /\ \E h1, h2 \in smp[r].hist :
              h1.epoch # h2.epoch /\ h1.order # smp[r].built /\ h1.epoch > 0

(***************************************************************************)
(* CustomDataset.get_frame_len and CustomConcatDataset                     *)
(*                                                                         *)
(* A CustomDataset built by load_multiple_phonemize_datasets (durations    *)
(* None) is the sequence of its rows' durations, in tenths of a second. A  *)
(* frame length is the exact fraction num/den.                             *)
(***************************************************************************)
target_sample_rate == 24000
hop_length == 256

\* self.data[index]: an index below 0 counts from the end, as for a list
RowAt(data, index) ==
    IF 0 <= index /\ index < Len(data) THEN [pc |-> "returned", row |-> data[index + 1]]
    ELSE IF index < 0 /\ index + Len(data) >= 0
         THEN [pc |-> "returned", row |-> data[index + Len(data) + 1]]
         ELSE [pc |-> "raised", row |-> 0]

\* CustomDataset.get_frame_len: self.data[index]["duration"] * target_sample_rate / hop_length
CustomDataset_get_frame_len(data, index) ==
    LET r == RowAt(data, index)
    IN IF r.pc = "returned"
       THEN [pc |-> "returned", num |-> r.row * target_sample_rate, den |-> 10 * hop_length]
       ELSE [pc |-> "raised", num |-> 0, den |-> 1]

\* ConcatDataset.cumsum over the sub-views, as self.cumulative_sizes
RECURSIVE CumSum(_, _)
CumSum(views, s) ==
    IF views = <<>> THEN <<>>
    ELSE <<Len(Head(views)) + s>> \o CumSum(Tail(views), Len(Head(views)) + s)

cumulative_sizes(views) == CumSum(views, 0)

RECURSIVE LocateNoOffset(_, _, _)
LocateNoOffset(cs, i, idx) ==
    IF i >= Len(cs) THEN [pc |-> "raised", dataset_idx |-> 0, sample_idx |-> 0]
    ELSE IF idx < cs[i + 1]
         THEN [pc |-> "returned", dataset_idx |-> i, sample_idx |-> idx]
         ELSE LocateNoOffset(cs, i + 1, idx)

\* _get_dataset_and_sample_index: the loop of lines 173-180 from position i on
RECURSIVE Locate(_, _, _)
Locate(cs, i, idx) ==
    IF i >= Len(cs) THEN [pc |-> "raised", dataset_idx |-> 0, sample_idx |-> 0]
    ELSE IF idx < cs[i + 1]
         THEN [pc |-> "returned", dataset_idx |-> i,
               sample_idx |-> IF i = 0 THEN idx ELSE idx - cs[i]]
         ELSE Locate(cs, i + 1, idx)

\* CustomConcatDataset.get_frame_len(idx): the outcome, the sub-view call it
\* made (delegated, empty when it made none) and the value returned
Concat_get_frame_len(views, idx) ==
    LET at == Locate(cumulative_sizes(views), 0, idx)
    IN IF at.pc = "raised"
       THEN [pc |-> "raised", idx |-> idx, error |-> "Index out of range",
             delegated |-> <<>>, num |-> 0, den |-> 1]
       ELSE LET v == CustomDataset_get_frame_len(views[at.dataset_idx + 1], at.sample_idx)
            IN [pc |-> v.pc, idx |-> idx,
                error |-> IF v.pc = "raised" THEN "sub-view index out of range" ELSE "",
                delegated |-> <<at.dataset_idx, at.sample_idx>>, num |-> v.num, den |-> v.den]

\* durations of ingested rows, in tenths of a second
RowDurations == {11, 300}

NoSampler == /\ data_source = <<>>
             /\ smp = <<>>
             /\ gen = 0

Total(views) == Sum([k \in 1..Len(views) |-> Len(views[k])])

\* get_frame_len(idx) on the concatenated view, for an index in or out of range
ConcatGetFrameLen ==
    /\ call.pc = "none"
    /\ \E idx \in (0 - MaxOut)..(Total(datasets) + MaxOut - 1) :
          call' = Concat_get_frame_len(datasets, idx)
    /\ UNCHANGED <<data_source, smp, gen, datasets, meta_file, vocab_map, result,
                 files, changer, view, getitem, meta_paths>>

\* CustomConcatDataset(datasets): ConcatDataset asserts at least one sub-view
InitConcat ==
    /\ \E n \in 1..MaxViews :
          datasets \in [1..n -> UNION {[1..l -> RowDurations] : l \in 0..MaxViewLen}]
    /\ call = [pc |-> "none"]
    /\ NoSampler
    /\ NoLoad
    /\ NoChanger
    /\ NoGetItem
    /\ NoCorpus

NextConcat == ConcatGetFrameLen

SpecConcat == InitConcat /\ [][NextConcat]_vars

\* the global index at which sub-view k (from 1) starts
Offset(views, k) == Sum([j \in 1..(k - 1) |-> Len(views[j])])

\* the sub-view that owns global index idx
Owner(views, idx) ==
    CHOOSE k \in 1..Len(views) :
        Offset(views, k) <= idx /\ idx < Offset(views, k) + Len(views[k])

InRange(idx) == 0 <= idx /\ idx < Total(datasets)

\* C6: get_frame_len(i) on the concatenated view, 0 <= i < total length, is
\* get_frame_len(i - offset) of the sub-view that owns i, offset being the sum
\* of the lengths of the sub-views before it.
C6_ConcatDelegates ==
    (call.pc # "none" /\ InRange(call.idx)) =>
        LET k == Owner(datasets, call.idx)
            local == call.idx - Offset(datasets, k)
            own == CustomDataset_get_frame_len(datasets[k], local)
        IN /\ call.pc = "returned"
           /\ call.delegated = <<k - 1, local>>
           /\ own.pc = "returned"
           /\ call.num = own.num /\ call.den = own.den

\* the last index of a sub-view of two rows that follows an empty sub-view and a
\* non-empty one
C6_Witness ==
    /\ call.pc = "returned"
    /\ InRange(call.idx)
    /\ \E k \in 3..Len(datasets) :
          /\ call.delegated = <<k - 1, 1>>
          /\ Len(datasets[k]) = 2
          /\ \E j \in 1..(k - 1) : Len(datasets[j]) = 0
          /\ \E j \in 1..(k - 1) : Len(datasets[j]) > 0

\* C7: get_frame_len with a global index below 0 or at or beyond the total
\* length signals an indexing error: it returns no frame length of a sub-view.
C7_OutOfRangeRaises ==
    (call.pc # "none" /\ ~InRange(call.idx)) => call.pc = "raised"

(***************************************************************************)
(* load_from_phonemize_txt                                                 *)
(*                                                                         *)
(* A character is a string; a text is a sequence of characters. A line of  *)
(* the metadata file is [fields, text, wav]: the number of fields          *)
(* line.split("|") gives (1 for a blank line or a line without "|"), the   *)
(* second field, and the state of the audio file the first field names.    *)
(* Durations are in tenths of a second.                                    *)
(***************************************************************************)
\* duration <= 1 and duration > 30 of line 369, in tenths of a second
DurationMin == 10
DurationMax == 300

NBSP == "nbsp"
QUOTE == "\""
\* '()[]{}<>'
DELETE_CHARS == {"(", ")", "[", "]", "{", "}", "<", ">"}
\* the keys of WS_MAP
WS_MAP == {NBSP, "ideographic space", "tab"}
\* unicodedata.category(c) == 'Zs'
Zs == {" ", NBSP, "ideographic space"}
\* what str.strip() removes
Whitespace == {" ", NBSP, "ideographic space", "tab"}

\* text.translate(WS_MAP)
Translate(text) == [k \in 1..Len(text) |-> IF text[k] \in WS_MAP THEN " " ELSE text[k]]

\* ''.join(' ' if unicodedata.category(c) == 'Zs' else c for c in text)
ZsToSpace(text) == [k \in 1..Len(text) |-> IF text[k] \in Zs THEN " " ELSE text[k]]

\* text.translate(str.maketrans('', '', DELETE_CHARS))
RECURSIVE DeleteChars(_)
DeleteChars(text) ==
    IF text = <<>> THEN <<>>
    ELSE IF Head(text) \in DELETE_CHARS THEN DeleteChars(Tail(text))
    ELSE <<Head(text)>> \o DeleteChars(Tail(text))

RECURSIVE LStrip(_)
LStrip(text) ==
    IF text # <<>> /\ Head(text) \in Whitespace THEN LStrip(Tail(text)) ELSE text

RECURSIVE RStrip(_)
RStrip(text) ==
    IF text # <<>> /\ text[Len(text)] \in Whitespace
    THEN RStrip(SubSeq(text, 1, Len(text) - 1)) ELSE text

\* str.strip()
Strip(text) == RStrip(LStrip(text))

\* re.sub(r' {2,}', ' ', text)
RECURSIVE Collapse(_)
Collapse(text) ==
    IF Len(text) < 2 THEN text
    ELSE IF text[1] = " " /\ text[2] = " " THEN Collapse(Tail(text))
    ELSE <<Head(text)>> \o Collapse(Tail(text))

\* lines 349-350: one layer of surrounding double quotes
Unquote(text) ==
    IF Len(text) >= 2 /\ text[1] = QUOTE /\ text[Len(text)] = QUOTE
    THEN Strip(SubSeq(text, 2, Len(text) - 1)) ELSE text

\* lines 345-353 (the text.strip() of line 353 is not assigned)
Normalize(text) ==
    DeleteChars(Unquote(Strip(Collapse(ZsToSpace(Translate(text))))))

DurationRejectedNoMax(duration) == duration <= DurationMin

DurationRejectedHFBounds(duration) == duration < 3 \/ duration > DurationMax

\* if duration <= 1 or duration > 30
DurationRejected(duration) == duration <= DurationMin \/ duration > DurationMax

\* unknown = [(i, ch) for i, ch in enumerate(text) if ch not in vocab_map]
UnknownTokens(text, vocab) ==
    LET at == {k \in 1..Len(text) : text[k] \notin vocab.keys}
        F[n \in 0..Len(text)] ==
            IF n = 0 THEN <<>>
            ELSE IF n \in at THEN Append(F[n - 1], <<n - 1, text[n]>>) ELSE F[n - 1]
    IN F[Len(text)]

Skip == [kind |-> "skip", error |-> "", unknown |-> <<>>]

Raise(error, unknown) == [kind |-> "raise", error |-> error, unknown |-> unknown]

VocabCheckSkips(text, vocab) ==
    IF vocab.given /\ UnknownTokens(text, vocab) # <<>> THEN Skip
    ELSE [kind |-> "append", error |-> "", unknown |-> <<>>]

\* lines 383-396
VocabCheck(text, vocab) ==
    IF vocab.given /\ UnknownTokens(text, vocab) # <<>>
    THEN Raise("unknown token", UnknownTokens(text, vocab))
    ELSE [kind |-> "append", error |-> "", unknown |-> <<>>]

\* torchaudio.info on the file of a line: it succeeds ("ok"), fails at every
\* call ("fails"), or fails only at the third call, the one of line 367
\* ("fails late")
ProbeFails(wav, nth) ==
    \/ wav.probe = "fails"
    \/ wav.probe = "fails late" /\ nth = 3

\* one pass of the loop body, lines 339-405, for one line
ProcessRow(row, vocab) ==
    IF row.fields = 1 THEN Skip                                   \* lines 340-341
    ELSE IF row.fields # 5 THEN Skip                              \* lines 354-356
    ELSE IF ~row.wav.exists THEN Skip                             \* lines 359-361
    ELSE IF ProbeFails(row.wav, 1) \/ ProbeFails(row.wav, 2)
         THEN Raise("torchaudio.info", <<>>)                      \* line 364
    ELSE IF ProbeFails(row.wav, 3) THEN Skip                      \* lines 375-377
    ELSE IF DurationRejected(row.wav.duration) THEN Skip          \* lines 369-371
    ELSE IF Strip(Normalize(row.text)) = <<>> THEN Skip           \* lines 379-381
    ELSE VocabCheck(Normalize(row.text), vocab)

\* the record of lines 398-405; audio_path is the file the line names, known
\* by the line's number
Record(row, line) ==
    [audio_path |-> line, text |-> Normalize(row.text), duration |-> row.wav.duration]

\* the loop of lines 338-405 from line number `line` on, then lines 407-410
RECURSIVE LoadLoop(_, _, _, _)
LoadLoop(rows, line, vocab, data) ==
    IF line > Len(rows)
    THEN IF Len(data) = 0
         THEN [pc |-> "raised", error |-> "no valid data", unknown |-> <<>>, data |-> <<>>]
         ELSE [pc |-> "returned", error |-> "", unknown |-> <<>>, data |-> data]
    ELSE LET p == ProcessRow(rows[line], vocab)
         IN IF p.kind = "raise"
            THEN [pc |-> "raised", error |-> p.error, unknown |-> p.unknown, data |-> <<>>]
            ELSE LoadLoop(rows, line + 1, vocab,
                          IF p.kind = "append" THEN Append(data, Record(rows[line], line))
                          ELSE data)

load_from_phonemize_txt(rows, vocab) == LoadLoop(rows, 1, vocab, <<>>)

(***************************************************************************)
(* Metadata files: up to MaxRows lines.                                    *)
(***************************************************************************)
UNMAPPED == "e-acute"

Wav(duration) == [exists |-> TRUE, probe |-> "ok", duration |-> duration]

\* audio files that make a line skipped or the call fail: missing, unreadable,
\* unreadable at the third probe only, too short, too long
BadWavs ==
    {[exists |-> FALSE, probe |-> "ok", duration |-> 0],
     [exists |-> TRUE, probe |-> "fails", duration |-> 0],
     [exists |-> TRUE, probe |-> "fails late", duration |-> 20],
     Wav(DurationMin), Wav(DurationMax + 1)}

\* every text of at most two characters over a mapped letter, an unmapped
\* letter and the space, and texts that exercise each step of the normalization
Texts ==
    UNION {[1..k -> {"a", UNMAPPED, " "}] : k \in 0..2}
    \cup {<<QUOTE, "a", QUOTE>>, <<QUOTE, QUOTE>>, <<QUOTE, "a">>, <<"(", ")">>,
          <<"(", " ", "a">>, <<"a", NBSP, " ", "a">>, <<"tab", "a", "[", "a", "]">>,
          <<"c", "a", "f", UNMAPPED>>,
          <<QUOTE, UNMAPPED, "a", UNMAPPED, QUOTE>>}

Lines ==
    {[fields |-> f, text |-> <<"a">>, wav |-> Wav(20)] : f \in {1, 4, 6}}
    \cup {[fields |-> 5, text |-> <<"a">>, wav |-> w] : w \in BadWavs}
    \cup {[fields |-> 5, text |-> t, wav |-> Wav(d)] : t \in Texts, d \in {DurationMin + 1, DurationMax}}

\* vocab_map: None, or a map whose keys are the given characters
VocabMaps ==
    {[given |-> FALSE, keys |-> {}],
     [given |-> TRUE, keys |-> {"a", "c", "f", " "}],
     [given |-> TRUE, keys |-> {"a", "c", "f"}]}

Load ==
    /\ result.pc = "none"
    /\ result' = load_from_phonemize_txt(meta_file, vocab_map)
    /\ UNCHANGED <<data_source, smp, gen, datasets, call, meta_file, vocab_map,
                 files, changer, view, getitem, meta_paths>>

InitLoad ==
    /\ \E n \in 0..MaxRows : meta_file \in [1..n -> Lines]
    /\ vocab_map \in VocabMaps
    /\ result = [pc |-> "none"]
    /\ NoSampler
    /\ NoConcat
    /\ NoChanger
    /\ NoGetItem
    /\ NoCorpus

NextLoad == Load

SpecLoad == InitLoad /\ [][NextLoad]_vars

(***************************************************************************)
(* Properties of the ingestion.                                            *)
(***************************************************************************)
Unmapped(text) == {k \in 1..Len(text) : text[k] \notin vocab_map.keys}

\* a line with 5 fields, an audio file that exists and is probed, a duration in
\* range and a text that is not empty after normalization
Passes(row) ==
    /\ row.fields = 5
    /\ row.wav.exists /\ row.wav.probe = "ok"
    /\ DurationMin < row.wav.duration /\ row.wav.duration <= DurationMax
    /\ Strip(Normalize(row.text)) # <<>>

ValidRow(row) ==
    Passes(row) /\ (vocab_map.given => Unmapped(Normalize(row.text)) = {})

\* C8: when the call returns, the list is not empty and every record has a
\* duration within bounds, a text not empty after normalization and, with a
\* vocabulary map, made of keys of the map; a file without a valid line makes
\* the call fail.
C8_SurvivingRecords ==
    /\ result.pc = "returned" =>
          /\ result.data # <<>>
          /\ \A k \in 1..Len(result.data) :
                LET rec == result.data[k]
                IN /\ DurationMin <= rec.duration /\ rec.duration <= DurationMax
                   /\ Strip(rec.text) # <<>>
                   /\ rec.text = Normalize(meta_file[rec.audio_path].text)
                   /\ vocab_map.given => Range(rec.text) \subseteq vocab_map.keys
    /\ (result.pc # "none" /\ \A i \in 1..Len(meta_file) : ~ValidRow(meta_file[i]))
          => result.pc = "raised"

\* a call with a vocabulary map that returns one record, of the longest accepted
\* duration and with a text the normalization changed, and skipped another line
C8_Witness ==
    /\ result.pc = "returned"
    /\ vocab_map.given
    /\ Len(meta_file) = 2 /\ Len(result.data) = 1
    /\ result.data[1].duration = DurationMax
    /\ result.data[1].text # meta_file[result.data[1].audio_path].text

\* the vocabulary check of line i would abort
Aborting(i) ==
    /\ vocab_map.given
    /\ Passes(meta_file[i])
    /\ Unmapped(Normalize(meta_file[i].text)) # {}

\* line i is read: no line before it made the call fail
Reached(i) ==
    \A j \in 1..(i - 1) :
        /\ ~Aborting(j)
        /\ ~(meta_file[j].fields = 5 /\ meta_file[j].wav.exists
             /\ meta_file[j].wav.probe = "fails")

\* C9: with a vocabulary map, a line that reaches the vocabulary check with a
\* normalized text holding a character that is no key of the map makes the call
\* fail with no record returned, and the error lists every such character of
\* that text with its 0-based position, in order.
C9_UnknownTokenAborts ==
    result.pc # "none" =>
        \A i \in 1..Len(meta_file) : (Aborting(i) /\ Reached(i)) =>
            LET text == Normalize(meta_file[i].text)
            IN /\ result.pc = "raised"
               /\ result.error = "unknown token"
               /\ result.data = <<>>
               /\ Len(result.unknown) = Cardinality(Unmapped(text))
               /\ \A k \in Unmapped(text) :
                     \E m \in 1..Len(result.unknown) : result.unknown[m] = <<k - 1, text[k]>>
               /\ \A m, n \in 1..Len(result.unknown) :
                     m < n => result.unknown[m][1] < result.unknown[n][1]

\* a valid line followed by a line whose text, once normalized, has unmapped
\* characters at positions 0 and 2
C9_Witness ==
    /\ result.pc = "raised"
    /\ Len(meta_file) = 2
    /\ ValidRow(meta_file[1])
    /\ Aborting(2)
    /\ result.unknown = <<<<0, UNMAPPED>>, <<2, UNMAPPED>>>>

\* the file with every line whose existing audio file cannot be probed made blank
ProbeFailuresBlanked(rows) ==
    [i \in 1..Len(rows) |->
        IF rows[i].fields = 5 /\ rows[i].wav.exists /\ rows[i].wav.probe # "ok"
        THEN [rows[i] EXCEPT !.fields = 1] ELSE rows[i]]

\* C10: a failure while probing an existing audio file skips only that line and
\* the call does not fail because of it: when the file with that line blank
\* yields records, the call returns those records.
C10_ProbeFailureSkipsRow ==
    LET skipped == load_from_phonemize_txt(ProbeFailuresBlanked(meta_file), vocab_map)
    IN (result.pc # "none" /\ skipped.pc = "returned") => result = skipped

\* a line the claimed contract keeps: 5 fields, an audio file that exists and is
\* probed, a duration d with 1 <= d <= 30 and a text not empty once normalized
ClaimedRow(row) ==
    /\ row.fields = 5
    /\ row.wav.exists /\ row.wav.probe = "ok"
    /\ DurationMin <= row.wav.duration /\ row.wav.duration <= DurationMax
    /\ Strip(Normalize(row.text)) # <<>>

\* no line of the file makes the call fail: every existing audio file is probed
\* and no line that reaches the vocabulary check holds an unmapped character
OnlyToleratedDefects ==
    \A i \in 1..Len(meta_file) :
        /\ ~Aborting(i)
        /\ (meta_file[i].fields = 5 /\ meta_file[i].wav.exists)
              => meta_file[i].wav.probe = "ok"

\* C11: a tolerated row defect removes only its row: in a file whose only defects
\* are tolerated ones, the records are exactly the lines with 5 fields, an
\* existing audio file, a duration d with 1 <= d <= 30 and a text not empty once
\* normalized, one record a line, in file order.
C11_ToleratedDefectsOnly ==
    (result.pc # "none" /\ OnlyToleratedDefects) =>
        /\ {result.data[k].audio_path : k \in 1..Len(result.data)}
              = {i \in 1..Len(meta_file) : ClaimedRow(meta_file[i])}
        /\ \A k, m \in 1..Len(result.data) :
              k < m => result.data[k].audio_path < result.data[m].audio_path

(***************************************************************************)
(* vocab_changer (vocab_generator.py)                                      *)
(*                                                                         *)
(* A file is [exists, lines, eol]: its lines without their newline, and    *)
(* whether the last line ends with one. A line is the sequence of the      *)
(* parts line.split("|", 4) gives; a line without "|" has one part. A JSON *)
(* value is [null, to]: null, or the string to.                            *)
(***************************************************************************)
MaxMetaLines == 2

None == [null |-> TRUE, to |-> <<>>]

Str(s) == [null |-> FALSE, to |-> s]

Absent == [exists |-> FALSE, lines |-> <<>>, eol |-> TRUE]

File(lines, eol) == [exists |-> TRUE, lines |-> lines, eol |-> eol]

\* output_meta = None
NoPath == ""

\* fix_map.get(ch)
Get(fix_map, ch) == IF ch \in DOMAIN fix_map THEN fix_map[ch] ELSE None

FixCharNoNullTest(fix_map, ch) ==
    IF ch \in DOMAIN fix_map THEN Get(fix_map, ch).to ELSE <<ch>>

\* fix_map.get(ch, ch) if fix_map.get(ch) is not None else ch
FixChar(fix_map, ch) ==
    IF ~Get(fix_map, ch).null THEN Get(fix_map, ch).to ELSE <<ch>>

\* "".join(... for ch in text), lines 88-91
RECURSIVE NewText(_, _)
NewText(fix_map, text) ==
    IF text = <<>> THEN <<>>
    ELSE FixChar(fix_map, Head(text)) \o NewText(fix_map, Tail(text))

\* the loop of lines 76-99 from the lines left to read on: the lines written and
\* the two counters
RECURSIVE ChangeLoop(_, _, _, _, _)
ChangeLoop(fix_map, fin, fout, changed, untouched) ==
    IF fin = <<>> THEN [fout |-> fout, changed |-> changed, untouched |-> untouched]
    ELSE LET parts == Head(fin)
         IN IF Len(parts) < 2                                     \* lines 78-85
            THEN ChangeLoop(fix_map, Tail(fin), Append(fout, parts), changed, untouched)
            ELSE LET text == parts[2]
                     new_text == NewText(fix_map, text)
                 IN ChangeLoop(fix_map, Tail(fin),
                               Append(fout, [parts EXCEPT ![2] = new_text]),
                               IF text # new_text THEN changed + 1 ELSE changed,
                               IF text # new_text THEN untouched ELSE untouched + 1)

\* output_meta or f"{meta_path}.fixed"
OutputMeta(meta_path, output_meta) ==
    IF output_meta = NoPath THEN meta_path \o ".fixed" ELSE output_meta

BakPath(meta_path) == meta_path \o ".bak"

\* vocab_changer(meta_path, json_path, output_meta, backup) on the file system fs,
\* fix_map being what json.load read: the file system it leaves and its counts.
\* open(output_meta, "w") empties the file before the first line is read.
vocab_changer(fs, meta_path, fix_map, output_meta, backup) ==
    IF ~fs[meta_path].exists
    THEN [pc |-> "raised", files |-> fs, changed |-> 0, untouched |-> 0]
    ELSE LET out == OutputMeta(meta_path, output_meta)
             bak_path == BakPath(meta_path)
             moved == IF backup
                      THEN [fs EXCEPT ![bak_path] = fs[meta_path], ![meta_path] = Absent]
                      ELSE fs
             src_path == IF backup THEN bak_path ELSE meta_path
             fin == IF src_path = out THEN <<>> ELSE moved[src_path].lines
             done == ChangeLoop(fix_map, fin, <<>>, 0, 0)
         IN [pc |-> "returned",
             files |-> [moved EXCEPT ![out] = File(done.fout, TRUE)],
             changed |-> done.changed, untouched |-> done.untouched]

\* one call; original keeps the file system the call found
VocabChanger ==
    /\ changer.pc = "args"
    /\ LET r == vocab_changer(files, changer.meta_path, changer.fix_map,
                              changer.output_meta, changer.backup)
       IN /\ files' = r.files
          /\ changer' = [changer EXCEPT !.pc = r.pc] @@
                        [changed |-> r.changed, untouched |-> r.untouched]
    /\ UNCHANGED <<data_source, smp, gen, datasets, call, meta_file, vocab_map, result,
                   view, getitem, meta_paths>>

MetaPath == "meta"

Paths == {MetaPath, BakPath(MetaPath), OutputMeta(MetaPath, NoPath), "out"}

FixTexts == {<<>>, <<"a">>, <<UNMAPPED>>, <<UNMAPPED, "a">>, <<UNMAPPED, UNMAPPED>>}

\* lines without "|", lines whose first field or whose text holds the character
\* to fix, and a line of three fields
MetaLines ==
    {<<t>> : t \in {<<>>, <<UNMAPPED>>}}
    \cup {<<<<UNMAPPED>>, t>> : t \in {<<"a">>, <<UNMAPPED>>}}
    \cup {<<<<"a">>, t>> : t \in FixTexts}
    \cup {<<<<"a">>, <<UNMAPPED>>, <<UNMAPPED>>>>}

MetaFiles ==
    {File(<<>>, TRUE)}
    \cup UNION {{File(l, e) : l \in [1..n -> MetaLines], e \in BOOLEAN} : n \in 1..MaxMetaLines}

\* fix lists: empty, a replacement, null, a deletion, the character itself, two
\* characters, a null beside a replacement, and two characters swapped
FixMaps ==
    {<<>>,
     UNMAPPED :> Str(<<"e">>),
     UNMAPPED :> None,
     UNMAPPED :> Str(<<>>),
     UNMAPPED :> Str(<<UNMAPPED>>),
     UNMAPPED :> Str(<<"e", "e">>),
     (UNMAPPED :> Str(<<"e">>)) @@ ("a" :> None),
     (UNMAPPED :> Str(<<"a">>)) @@ ("a" :> Str(<<UNMAPPED>>))}

\* a stale backup of an earlier call
Stale == File(<<<<<<"a">>, <<"a">>>>>>, TRUE)

InitChanger ==
    /\ \E m \in MetaFiles \cup {Absent}, b \in {Absent, Stale} :
          files = [p \in Paths |-> IF p = MetaPath THEN m
                                   ELSE IF p = BakPath(MetaPath) THEN b ELSE Absent]
    /\ \E fm \in FixMaps, o \in {NoPath, MetaPath, BakPath(MetaPath), "out"}, bk \in BOOLEAN :
          changer = [pc |-> "args", meta_path |-> MetaPath, fix_map |-> fm,
                     output_meta |-> o, backup |-> bk,
                     original |-> files[MetaPath]]
    /\ NoSampler
    /\ NoConcat
    /\ NoLoad
    /\ NoGetItem
    /\ NoCorpus

NextChanger == VocabChanger

SpecChanger == InitChanger /\ [][NextChanger]_vars

(***************************************************************************)
(* Properties of vocab_changer.                                            *)
(***************************************************************************)
\* what a character of the fix list with a non-null replacement becomes
Replaced(ch) ==
    IF ch \in DOMAIN changer.fix_map /\ ~changer.fix_map[ch].null
    THEN changer.fix_map[ch].to ELSE <<ch>>

\* a field with every such character replaced
Fixed(field) ==
    LET F[n \in 0..Len(field)] == IF n = 0 THEN <<>> ELSE F[n - 1] \o Replaced(field[n])
    IN F[Len(field)]

\* the rows of the file the call found that differ from the rows of file f
Altered(f) ==
    {i \in 1..Len(changer.original.lines) :
        i > Len(f.lines) \/ f.lines[i] # changer.original.lines[i]}

OutPath == OutputMeta(changer.meta_path, changer.output_meta)

\* the file the call found has a line whose text holds a character the fix list
\* replaces by something else
HasFixableText ==
    \E i \in 1..Len(changer.original.lines) :
        /\ Len(changer.original.lines[i]) >= 2
        /\ Fixed(changer.original.lines[i][2]) # changer.original.lines[i][2]

\* C12 as claimed: after a call with the default arguments on a file with a line
\* to fix, the metadata path holds the lines with every fix-listed character
\* that has a non-null replacement replaced, <path>.bak holds the original
\* content and changed is the number of rows altered.
C12_Original ==
    (/\ changer.pc = "returned" /\ changer.output_meta = NoPath /\ changer.backup
     /\ HasFixableText) =>
        LET f == files[changer.meta_path]
        IN /\ f.exists
           /\ Len(f.lines) = Len(changer.original.lines)
           /\ \A i \in 1..Len(f.lines) :
                 f.lines[i] = [k \in 1..Len(changer.original.lines[i]) |->
                                  Fixed(changer.original.lines[i][k])]
           /\ files[BakPath(changer.meta_path)] = changer.original
           /\ changer.changed = Cardinality(Altered(f))

\* C12, amended: after a call with a backup whose output path (output_meta,
\* <path>.fixed when none is given) is not <path>.bak, the output path holds the
\* lines with every fix-listed character of the text field (the second field) that
\* has a non-null replacement replaced and every other field and every line
\* without "|" as it was, <path>.bak holds the original content, the metadata
\* path holds a file only when it is the output path, and changed is the number
\* of rows altered.
C12_RewritesToOutputPath ==
    (changer.pc = "returned" /\ changer.backup /\ OutPath # BakPath(changer.meta_path)) =>
        LET f == files[OutPath]
            orig == changer.original.lines
        IN /\ f.exists
           /\ Len(f.lines) = Len(orig)
           /\ \A i \in 1..Len(f.lines) :
                 /\ Len(f.lines[i]) = Len(orig[i])
                 /\ \A k \in 1..Len(orig[i]) :
                       f.lines[i][k] = IF k = 2 THEN Fixed(orig[i][k]) ELSE orig[i][k]
           /\ files[BakPath(changer.meta_path)] = changer.original
           /\ files[changer.meta_path].exists <=> OutPath = changer.meta_path
           /\ changer.changed = Cardinality(Altered(f))
           /\ changer.changed + changer.untouched
                 = Cardinality({i \in 1..Len(orig) : Len(orig[i]) >= 2})

\* a call with the default arguments on a file of two lines: one altered, whose
\* first field keeps the character the fix list replaces in its text, and one
\* whose text holds only a character mapped to null
C12_Witness ==
    /\ changer.pc = "returned" /\ changer.backup /\ changer.output_meta = NoPath
    /\ changer.changed = 1 /\ changer.untouched = 1
    /\ \E ch \in DOMAIN changer.fix_map : changer.fix_map[ch].null
    /\ LET f == files[OutPath]
       IN /\ Len(f.lines) = 2
          /\ f.lines[1] # changer.original.lines[1]
          /\ f.lines[1][1] = <<UNMAPPED>>
          /\ f.lines[2] = changer.original.lines[2]
          /\ \E k \in 1..Len(f.lines[2][2]) :
                /\ f.lines[2][2][k] \in DOMAIN changer.fix_map
                /\ changer.fix_map[f.lines[2][2][k]].null

(***************************************************************************)
(* The greedy pass of DynamicBatchSampler.__init__, on the data sources of *)
(* Init and on five rows of frame lengths 10, 10, 10, 10, 100 batched      *)
(* under a threshold of 25 frames.                                         *)
(***************************************************************************)
InitExample ==
    /\ data_source = <<10, 10, 10, 10, 100>>
    /\ \E u \in Upstreams(5), d \in BOOLEAN :
          smp = [r \in {1} |-> Args(u, 25, 0, NoSeed, d)]
    /\ gen = 0
    /\ NoConcat
    /\ NoLoad
    /\ NoChanger
    /\ NoGetItem
    /\ NoCorpus

InitGreedy == Init \/ InitExample

NextGreedy == SamplerInit(1)

SpecGreedy == InitGreedy /\ [][NextGreedy]_vars

\* the batches one after the other
Flat(batches) ==
    LET F[n \in 0..Len(batches)] == IF n = 0 THEN <<>> ELSE F[n - 1] \o batches[n]
    IN F[Len(batches)]

\* the upstream indices that are in none of the first k batches
After(s, k) == Range(s.sampler) \ BatchUnion(SubSeq(s.batches, 1, k))

\* index i cannot join batch b
CannotAdd(s, b, i) ==
    \/ BatchFrames(b) + get_frame_len(data_source, i) > s.frames_threshold
    \/ s.max_samples > 0 /\ Len(b) >= s.max_samples

Oversize(s) == Range(s.sampler) \ Batchable(s)

\* the frame lengths of the indices of a batch, in order
FramesOf(b) == [k \in 1..Len(b) |-> get_frame_len(data_source, b[k])]

\* C13: the batch list is the greedy pass over the indices sorted by frame length:
\* the batches one after the other give non-decreasing frame lengths; no index
\* that comes after a batch could have been added to it (the frame sum would
\* pass frames_threshold, or the batch holds max_samples indices with
\* max_samples > 0); an index whose frame length alone exceeds frames_threshold
\* is in no batch and, when there is one, every other index is in a batch; and
\* frame lengths 10, 10, 10, 10, 100 under a threshold of 25 give exactly the
\* batches [10, 10], [10, 10].
C13_GreedyPass ==
    \A r \in Built :
        LET s == smp[r]
            flat == Flat(s.batches)
        IN /\ \A j, k \in 1..Len(flat) :
                 j < k => get_frame_len(data_source, flat[j]) <= get_frame_len(data_source, flat[k])
           /\ \A k \in 1..Len(s.batches) : \A i \in After(s, k) :
                 /\ CannotAdd(s, s.batches[k], i)
                 /\ get_frame_len(data_source, s.batches[k][Len(s.batches[k])])
                       <= get_frame_len(data_source, i)
           /\ \A k \in 1..Len(s.batches) : s.batches[k] # <<>>
           /\ BatchUnion(s.batches) \cap Oversize(s) = {}
           /\ Oversize(s) # {} => BatchUnion(s.batches) = Batchable(s)
           /\ (data_source = <<10, 10, 10, 10, 100>> /\ s.frames_threshold = 25
                 /\ s.max_samples = 0)
                 => /\ Len(s.batches) = 2
                    /\ FramesOf(s.batches[1]) = <<10, 10>>
                    /\ FramesOf(s.batches[2]) = <<10, 10>>
                    /\ BatchUnion(s.batches) = {0, 1, 2, 3}

\* the sampler of the example, built with drop_residual set over an upstream
\* order that yields the row of 100 frames first
C13_Witness ==
    \E r \in Built :
        /\ data_source = <<10, 10, 10, 10, 100>>
        /\ smp[r].drop_residual
        /\ smp[r].sampler[1] = 4
        /\ Len(smp[r].batches) = 2

(***************************************************************************)
(* CustomDataset.__getitem__ and HFDataset.__getitem__                     *)
(*                                                                         *)
(* A view is [kind, data]: data is the sequence of its rows' durations, in *)
(* tenths of a second. getitem is one call: the index asked for (start),   *)
(* the index the loop or the recursion is at, the depth of the recursion   *)
(* and, once returned, the position of the row whose example it delivers.  *)
(***************************************************************************)
MaxViewRows == 3

\* the depth at which the interpreter ends a recursion with RecursionError; it is
\* kept above the number of rows of a view
RecursionLimit == 4

\* if 1 <= duration <= 30 (CustomDataset), in tenths of a second
ItemDurationMin == 10
ItemDurationMax == 300

\* if duration > 30 or duration < 0.3 (HFDataset), in tenths of a second
HFDurationMin == 3
HFDurationMax == 300

CustomValid(duration) == ItemDurationMin <= duration /\ duration <= ItemDurationMax

HFRejected(duration) == duration > HFDurationMax \/ duration < HFDurationMin

\* __getitem__(index) is called
GetItemCall ==
    /\ getitem.pc = "none"
    /\ view.kind # "none"
    /\ \E index \in 0..(Len(view.data) - 1) :
          getitem' = [pc |-> "running", start |-> index, index |-> index,
                      depth |-> 0, row |-> -1, error |-> ""]
    /\ UNCHANGED <<data_source, smp, gen, datasets, call, meta_file, vocab_map, result,
                   files, changer, view, meta_paths>>

\* one pass of the while loop of CustomDataset.__getitem__ (lines 131-142), and
\* the rest of the method once the loop is left
CustomStep ==
    /\ getitem.pc = "running"
    /\ view.kind = "CustomDataset"
    /\ LET duration == view.data[getitem.index + 1]
       IN IF CustomValid(duration)
          THEN getitem' = [getitem EXCEPT !.pc = "returned", !.row = getitem.index]
          ELSE getitem' = [getitem EXCEPT !.index = (getitem.index + 1) % Len(view.data)]
    /\ UNCHANGED <<data_source, smp, gen, datasets, call, meta_file, vocab_map, result,
                   files, changer, view, meta_paths>>

\* one call of HFDataset.__getitem__ (lines 53-82): it returns the example of its
\* row, or calls itself on the next index, which the interpreter refuses at
\* RecursionLimit
HFStep ==
    /\ getitem.pc = "running"
    /\ view.kind = "HFDataset"
    /\ LET duration == view.data[getitem.index + 1]
       IN IF ~HFRejected(duration)
          THEN getitem' = [getitem EXCEPT !.pc = "returned", !.row = getitem.index]
          ELSE IF getitem.depth + 1 >= RecursionLimit
               THEN getitem' = [getitem EXCEPT !.pc = "raised", !.error = "RecursionError"]
               ELSE getitem' = [getitem EXCEPT !.index = (getitem.index + 1) % Len(view.data),
                                               !.depth = getitem.depth + 1]
    /\ UNCHANGED <<data_source, smp, gen, datasets, call, meta_file, vocab_map, result,
                   files, changer, view, meta_paths>>

\* durations on both sides of every bound of the two filters
ViewDurations == {2, 3, 10, 300, 301}

InitGetItem ==
    /\ \E k \in {"CustomDataset", "HFDataset"}, n \in 0..MaxViewRows :
          \E d \in [1..n -> ViewDurations] : view = [kind |-> k, data |-> d]
    /\ getitem = [pc |-> "none"]
    /\ NoSampler
    /\ NoConcat
    /\ NoLoad
    /\ NoChanger
    /\ NoCorpus

NextGetItem ==
    \/ GetItemCall
    \/ CustomStep
    \/ HFStep

\* a call that has started keeps running: the interpreter takes the next step
SpecGetItem == InitGetItem /\ [][NextGetItem]_vars /\ WF_vars(NextGetItem)

\* the rows of the view whose duration is inside the bounds of its kind
ValidRows ==
    {i \in 0..(Len(view.data) - 1) :
        IF view.kind = "CustomDataset" THEN CustomValid(view.data[i + 1])
        ELSE ~HFRejected(view.data[i + 1])}

\* how far row i is after the index asked for, going round
Ahead(i) == (i - getitem.start + Len(view.data)) % Len(view.data)

GetItemEnded == getitem.pc \in {"returned", "raised"}

\* C14: a call of get_item with an in-range index ends (stated for views of two
\* rows or more, where every pass of the loop moves the index); with a row inside
\* the bounds it returns the example of the first such row at or cyclically after
\* the index, and with every row outside the bounds it ends with an error.
C14_GetItemTerminates ==
    /\ [](getitem.pc = "returned" =>
            /\ getitem.row \in ValidRows
            /\ \A i \in ValidRows : Ahead(getitem.row) <= Ahead(i))
    /\ [](getitem.pc = "raised" => ValidRows = {})
    /\ (getitem.pc = "running" /\ Len(view.data) >= 2) ~> GetItemEnded

(***************************************************************************)
(* load_multiple_phonemize_datasets and get_item on the view it builds     *)
(*                                                                         *)
(* meta_paths is the list of metadata files; the call leaves in datasets   *)
(* one CustomDataset a file, the sequence of the durations of its records. *)
(***************************************************************************)
MaxMetaFiles == 2

MaxFileRows == 2

\* the loop of lines 427-446 from the files left to load on, then line 448:
\* ConcatDataset refuses an empty list of sub-views
RECURSIVE LoadEach(_, _, _)
LoadEach(metas, vocab, built) ==
    IF metas = <<>>
    THEN IF built = <<>>
         THEN [pc |-> "raised", error |-> "datasets should not be an empty iterable",
               datasets |-> <<>>]
         ELSE [pc |-> "returned", error |-> "", datasets |-> built]
    ELSE LET hf_dataset == load_from_phonemize_txt(Head(metas), vocab)
         IN IF hf_dataset.pc = "raised"
            THEN [pc |-> "raised", error |-> hf_dataset.error, datasets |-> <<>>]
            ELSE LoadEach(Tail(metas), vocab,
                          Append(built, [j \in 1..Len(hf_dataset.data) |->
                                            hf_dataset.data[j].duration]))

load_multiple_phonemize_datasets(metas, vocab) == LoadEach(metas, vocab, <<>>)

LoadMultiple ==
    /\ result.pc = "none"
    /\ LET r == load_multiple_phonemize_datasets(meta_paths, vocab_map)
       IN /\ result' = [pc |-> r.pc, error |-> r.error]
          /\ datasets' = r.datasets
    /\ UNCHANGED <<data_source, smp, gen, call, meta_file, vocab_map,
                   files, changer, view, getitem, meta_paths>>

\* bisect.bisect_right(cumulative_sizes, idx): the number of sizes <= idx
BisectRight(cs, idx) == Cardinality({k \in 1..Len(cs) : cs[k] <= idx})

\* ConcatDataset.__getitem__(idx), inherited by CustomConcatDataset: the sub-view
\* and the index in it that the call is passed on to
ConcatLocate(views, idx) ==
    LET cs == cumulative_sizes(views)
        dataset_idx == BisectRight(cs, idx)
    IN [dataset_idx |-> dataset_idx,
        sample_idx |-> IF dataset_idx = 0 THEN idx ELSE idx - cs[dataset_idx]]

\* get_item(idx) on the view built: the call reaches __getitem__(sample_idx) of
\* the sub-view, whose loop CustomStep runs
ConcatGetItemCall ==
    /\ result.pc = "returned"
    /\ getitem.pc = "none"
    /\ \E idx \in 0..(Total(datasets) - 1) :
          LET at == ConcatLocate(datasets, idx)
          IN /\ view' = [kind |-> "CustomDataset", data |-> datasets[at.dataset_idx + 1]]
             /\ getitem' = [pc |-> "running", idx |-> idx, dataset_idx |-> at.dataset_idx,
                            start |-> at.sample_idx, index |-> at.sample_idx,
                            depth |-> 0, row |-> -1, error |-> ""]
    /\ UNCHANGED <<data_source, smp, gen, datasets, call, meta_file, vocab_map, result,
                   files, changer, meta_paths>>

\* lines of a metadata file: audio files of 0.5 s, which the ingestion skips, and
\* of the shortest and the longest duration it keeps
CorpusLines ==
    {[fields |-> 5, text |-> <<"a">>, wav |-> Wav(d)] :
        d \in {5, DurationMin + 1, DurationMax}}

InitCorpus ==
    /\ \E n \in 0..MaxMetaFiles :
          meta_paths \in [1..n -> UNION {[1..l -> CorpusLines] : l \in 0..MaxFileRows}]
    /\ meta_file = <<>>
    /\ vocab_map = [given |-> FALSE, keys |-> {}]
    /\ result = [pc |-> "none"]
    /\ datasets = <<>>
    /\ call = [pc |-> "none"]
    /\ NoSampler
    /\ NoChanger
    /\ NoGetItem

NextCorpus ==
    \/ LoadMultiple
    \/ ConcatGetItemCall
    \/ CustomStep

SpecCorpus == InitCorpus /\ [][NextCorpus]_vars

(***************************************************************************)
(* Properties of the view built by load_multiple_phonemize_datasets.       *)
(***************************************************************************)
\* C15: every record that survived the ingestion passes the duration filter of
\* CustomDataset.__getitem__, so get_item(i), 0 <= i < total length, delivers
\* row i itself, the row of the sub-view that owns i at i less the sub-view's
\* offset, and get_frame_len(i) is the frame length of the row delivered.
C15_IngestedRowsPassFilter ==
    /\ result.pc = "returned" =>
          \A k \in 1..Len(datasets) : \A j \in 1..Len(datasets[k]) :
              CustomValid(datasets[k][j])
    /\ getitem.pc = "returned" =>
          LET k == Owner(datasets, getitem.idx)
              planned == Concat_get_frame_len(datasets, getitem.idx)
          IN /\ getitem.dataset_idx = k - 1
             /\ getitem.row = getitem.idx - Offset(datasets, k)
             /\ planned.pc = "returned"
             /\ planned.delegated = <<getitem.dataset_idx, getitem.row>>
             /\ planned.num = datasets[k][getitem.row + 1] * target_sample_rate
             /\ planned.den = 10 * hop_length

\* get_item of the last index of a view of two files, the second of which lost
\* its first line to the duration filter of the ingestion
C15_Witness ==
    /\ getitem.pc = "returned"
    /\ Len(meta_paths) = 2 /\ Len(datasets) = 2
    /\ Len(meta_paths[2]) = 2 /\ Len(datasets[2]) = 1
    /\ DurationRejected(meta_paths[2][1].wav.duration)
    /\ getitem.idx = Total(datasets) - 1
    /\ getitem.idx >= 1
    /\ datasets[2][1] = DurationMax

====
